---- MODULE Spec2Model ----
(***************************************************************************)
(* A model of the prompt renderer of starship: the module orchestrator     *)
(* (src/print.rs), the custom module executor (src/modules/custom.rs) and  *)
(* the fixed default module order (src/configs/starship_root.rs).          *)
(*                                                                         *)
(* Conventions.  An Option<T> is a sequence of length at most one:         *)
(* None = <<>>, Some(v) = <<v>>.  A string whose content matters (the      *)
(* captured output of a command, the prompt buffer) is a sequence of       *)
(* one-character strings.                                                  *)
(***************************************************************************)
EXTENDS Integers, Sequences, FiniteSets, TLC

VARIABLES
    ctx,       \* the Context: configuration, directory, environment, shell
    pc,        \* position of the operation in progress
    target,    \* the name the operation in progress is called for
    requested, \* the variables of the root template (handle_module's module_list)
    result,    \* what the call in progress returned and did
    MESSAGES,  \* the process-global message list (messages::add)
    viewed,    \* the persisted record of viewed messages
    outputs,   \* what each get_prompt call so far returned and did
    bindings,  \* the variables resolved so far by the render in progress
    chunks,    \* the pieces PROMPT_ORDER is split into for the parallel walk
    arrival    \* the pieces in the order their workers finished

call_vars == <<target, requested, result>>
global_vars == <<MESSAGES, viewed>>
render_vars == <<outputs, bindings, chunks, arrival>>
vars == <<ctx, pc, target, requested, result, MESSAGES, viewed, outputs,
          bindings, chunks, arrival>>

Range(q) == {q[i] : i \in 1..Len(q)}

None == <<>>
Some(v) == <<v>>
IsSome(o) == o # <<>>
Unwrap(o) == o[1]

(***************************************************************************)
(* Bounds of the model.                                                    *)
(***************************************************************************)
\* longest captured standard output of a command, in characters
MaxOut == 2
\* most variables in a root template
MaxVars == 2
\* most segments in the module a builtin detector returns
MaxSegs == 1
\* most get_prompt calls in one process
MaxRenders == 2
\* most pieces the parallel walk of PROMPT_ORDER is split into
MaxChunks == 3

\* graphemes of a bookmark or branch name
MaxName == 3
\* the widths of the integers of hg_branch, scaled down: the configured
\* truncation_length is a signed integer of IntBits bits, usize has
\* UsizeBitsWide bits where it holds every positive truncation_length and
\* UsizeBitsNarrow bits on a target whose usize is narrower
IntBits == 5
UsizeBitsWide == 5
UsizeBitsNarrow == 3

Chars == {" ", "x"}
Whitespace == {" "}
Strings == UNION {[1..n -> Chars] : n \in 0..MaxOut}

(***************************************************************************)
(* str::trim: the string without its leading and trailing whitespace.      *)
(***************************************************************************)
RECURSIVE trim_start(_)
trim_start(s) ==
    IF s = <<>> THEN <<>>
    ELSE IF Head(s) \in Whitespace THEN trim_start(Tail(s)) ELSE s

RECURSIVE trim_end(_)
trim_end(s) ==
    IF s = <<>> THEN <<>>
    ELSE IF s[Len(s)] \in Whitespace THEN trim_end(SubSeq(s, 1, Len(s) - 1)) ELSE s

trim(s) == trim_end(trim_start(s))

(***************************************************************************)
(* The directory scan.  A listing is a set of entries; try_begin_scan      *)
(* yields None when the scan cannot begin, and custom::module returns      *)
(* at once in that case (the `?` of custom.rs:22).                         *)
(***************************************************************************)
FileEntry(name, ext) == [kind |-> "file", name |-> name, ext |-> ext]
FolderEntry(name) == [kind |-> "folder", name |-> name, ext |-> ""]

Entries == {FileEntry("main.rs", "rs"), FolderEntry("src")}

try_begin_scan(c) == c.dir

\* ScanDir::is_match over the criteria that were set; a criterion that was
\* never set is the empty set.
is_match(listing, files, extensions, folders) ==
    \/ \E e \in listing : e.kind = "file" /\ e.name \in files
    \/ \E e \in listing : e.kind = "file" /\ e.ext \in extensions
    \/ \E e \in listing : e.kind = "folder" /\ e.name \in folders

(***************************************************************************)
(* Subprocesses.  A command is known by what running it gives: its exit    *)
(* status and its standard output.  The environment decides which programs *)
(* can be spawned (ctx.spawnable) and whether the pipe to the child and    *)
(* the wait for it succeed (ctx.io).                                       *)
(***************************************************************************)
Command(status, stdout) == [status |-> status, stdout |-> stdout]

Invocation(prog, args) == [prog |-> prog, args |-> args]

\* the Output of a child that was spawned: write_all to its stdin (when the
\* command travels on stdin), then wait_with_output
child_output(cmd, uses_stdin, c) ==
    IF uses_stdin /\ c.io = "write_err" THEN None
    ELSE IF c.io = "wait_err" THEN None
    ELSE Some([status |-> cmd.status, stdout |-> cmd.stdout])

\* get_shell (not windows): `shell`, else STARSHIP_SHELL, else "sh"
get_shell(shell, c) ==
    IF IsSome(shell) THEN Unwrap(shell)
    ELSE IF IsSome(c.env_shell) THEN Unwrap(c.env_shell)
    ELSE "sh"

\* shell_command without its second attempt
shell_command_unix_no_retry(cmd, shell, c) ==
    LET first == Invocation(get_shell(shell, c), <<>>)
    IN  IF first.prog \in c.spawnable
        THEN [output |-> child_output(cmd, TRUE, c), spawns |-> <<first>>]
        ELSE [output |-> None, spawns |-> <<first>>]

\* shell_command (not windows)
shell_command_unix(cmd, shell, c) ==
    LET first == Invocation(get_shell(shell, c), <<>>)
        retry == Invocation("/bin/env", <<"sh">>)
    IN  IF first.prog \in c.spawnable
        THEN [output |-> child_output(cmd, TRUE, c), spawns |-> <<first>>]
        ELSE IF retry.prog \in c.spawnable
        THEN [output |-> child_output(cmd, TRUE, c), spawns |-> <<first, retry>>]
        ELSE [output |-> None, spawns |-> <<first, retry>>]

\* shell_command (windows)
shell_command_windows(cmd, shell, c) ==
    LET forced == IF IsSome(shell) THEN shell ELSE c.env_shell
        last == Invocation("cmd.exe", <<"/C", "cmd">>)
        tried == IF IsSome(forced) THEN <<Invocation(Unwrap(forced), <<>>)>> ELSE <<>>
    IN  IF IsSome(forced) /\ Unwrap(forced) \in c.spawnable
        THEN [output |-> child_output(cmd, TRUE, c), spawns |-> tried]
        ELSE IF last.prog \in c.spawnable
        THEN [output |-> child_output(cmd, FALSE, c), spawns |-> tried \o <<last>>]
        ELSE [output |-> None, spawns |-> tried \o <<last>>]

shell_command(cmd, shell, c) ==
    IF c.platform = "windows" THEN shell_command_windows(cmd, shell, c)
    ELSE shell_command_unix(cmd, shell, c)

\* exec_when: whether the command ran and returned 0
exec_when(cmd, shell, c) ==
    LET r == shell_command(cmd, shell, c)
    IN  [ok |-> IsSome(r.output) /\ Unwrap(r.output).status = 0,
         exec |-> [kind |-> "when", spawns |-> r.spawns]]

\* exec_command without its check of the exit status
exec_command_any_status(cmd, shell, c) ==
    LET r == shell_command(cmd, shell, c)
    IN  [output |-> IF IsSome(r.output) THEN Some(Unwrap(r.output).stdout) ELSE None,
         exec |-> [kind |-> "command", spawns |-> r.spawns]]

\* exec_command: the command's output on success
exec_command(cmd, shell, c) ==
    LET r == shell_command(cmd, shell, c)
    IN  [output |-> IF IsSome(r.output) /\ Unwrap(r.output).status = 0
                    THEN Some(Unwrap(r.output).stdout) ELSE None,
         exec |-> [kind |-> "command", spawns |-> r.spawns]]

(***************************************************************************)
(* Segments and modules.                                                   *)
(***************************************************************************)
Segment(name, value) == [name |-> name, value |-> value]

Module(name, segments) == [name |-> name, segments |-> segments]

\* what a call returned and did: the module (None when absent), the
\* subprocess executions in order, and whether the call panicked
Outcome(module, execs) == [panic |-> FALSE, module |-> module, execs |-> execs]

Panic == [panic |-> TRUE, module |-> None, execs |-> <<>>]

(***************************************************************************)
(* custom::module                                                          *)
(***************************************************************************)
\* custom::module that goes on to the output command whatever the match
custom_module_without_match(name, c) ==
    IF name \notin DOMAIN c.custom THEN Panic
    ELSE IF ~IsSome(try_begin_scan(c)) THEN Outcome(None, <<>>)
    ELSE LET made(out) ==
                 IF ~IsSome(out.output) \/ trim(Unwrap(out.output)) = <<>>
                 THEN Outcome(None, <<out.exec>>)
                 ELSE Outcome(Some(Module(name,
                          <<Segment("output", trim(Unwrap(out.output)))>>)),
                          <<out.exec>>)
         IN  made(exec_command(c.custom[name].command, c.custom[name].shell, c))

custom_module(name, c) ==
    IF name \notin DOMAIN c.custom THEN Panic
    ELSE
    LET config == c.custom[name]
        scan_dir == try_begin_scan(c)
    IN  IF ~IsSome(scan_dir) THEN Outcome(None, <<>>)
        ELSE
        LET scanned == is_match(Unwrap(scan_dir), config.files,
                                config.extensions, config.directories)
            gate == IF ~scanned /\ IsSome(config.when)
                    THEN Some(exec_when(Unwrap(config.when), config.shell, c))
                    ELSE None
            matched == scanned \/ (IsSome(gate) /\ Unwrap(gate).ok)
            gate_execs == IF IsSome(gate) THEN <<Unwrap(gate).exec>> ELSE <<>>
        IN  IF ~matched THEN Outcome(None, gate_execs)
            ELSE
            LET symbol == IF IsSome(config.symbol)
                          THEN <<Segment("symbol", Unwrap(config.symbol))>> ELSE <<>>
                out == exec_command(config.command, config.shell, c)
                execs == gate_execs \o <<out.exec>>
            IN  IF ~IsSome(out.output) THEN Outcome(None, execs)
                ELSE IF trim(Unwrap(out.output)) = <<>> THEN Outcome(None, execs)
                ELSE Outcome(Some(Module(name,
                        symbol \o <<Segment("output", trim(Unwrap(out.output)))>>)),
                        execs)

(***************************************************************************)
(* The fixed default module order, and the builtin module identifiers.     *)
(* The array is declared with 36 entries: the build without the "battery"  *)
(* feature.                                                                *)
(***************************************************************************)
PROMPT_ORDER ==
    << "username", "hostname", "singularity", "kubernetes", "directory",
       "git_branch", "git_commit", "git_state", "git_status", "hg_branch",
       "docker_context", "package",
       "dotnet", "elixir", "elm", "golang", "haskell", "java", "julia",
       "nodejs", "php", "python", "ruby", "rust", "terraform",
       "nix_shell", "conda", "memory_usage", "aws", "env_var", "cmd_duration",
       "custom", "\n", "jobs", "time", "character" >>

ALL_MODULES == {PROMPT_ORDER[i] : i \in 1..Len(PROMPT_ORDER)} \ {"custom", "\n"}

(***************************************************************************)
(* The bytes of the names the orchestrator slices and compares.            *)
(***************************************************************************)
custom_dot == <<"c", "u", "s", "t", "o", "m", ".">>

Bytes(name) ==
    CASE name = "foo" -> <<"f", "o", "o">>
      [] name = "bar" -> <<"b", "a", "r">>
      [] name = "custom" -> <<"c", "u", "s", "t", "o", "m">>
      [] name = "custom.foo" -> custom_dot \o <<"f", "o", "o">>
      [] name = "custom.bar" -> custom_dot \o <<"b", "a", "r">>
      [] name = "custom.foobar" -> custom_dot \o <<"f", "o", "o", "b", "a", "r">>
      [] name = "all" -> <<"a", "l", "l">>
      [] name = "foobar" -> <<"f", "o", "o", "b", "a", "r">>
      [] name = "username" -> <<"u", "s", "e", "r", "n", "a", "m", "e">>
      [] name = "character" -> <<"c", "h", "a", "r", "a", "c", "t", "e", "r">>
      [] name = "customs" -> <<"c", "u", "s", "t", "o", "m", "s">>

Names == {"foo", "bar", "foobar", "custom", "custom.foo", "custom.bar",
          "custom.foobar", "all", "username", "character", "customs"}

\* the name with these bytes
Named(bytes) == CHOOSE n \in Names : Bytes(n) = bytes

\* str::starts_with("custom.")
starts_with_custom_dot(name) ==
    Len(Bytes(name)) >= 7 /\ SubSeq(Bytes(name), 1, 7) = custom_dot

\* &module[7..]
after_custom_dot(name) == Named(SubSeq(Bytes(name), 8, Len(Bytes(name))))

(***************************************************************************)
(* What the orchestrator reads of the Context.                             *)
(***************************************************************************)
\* Context::is_module_disabled_in_config
is_module_disabled_in_config(name, c) == name \in c.disabled

\* Context::is_custom_module_disabled_in_config: None without a
\* configuration for the name
is_custom_module_disabled_in_config(name, c) ==
    IF name \in DOMAIN c.custom THEN Some(c.custom[name].disabled = "true") ELSE None

\* the keys of the table of custom modules, in the table's order
CustomNameOrder == <<"bar", "foo", "foobar">>

get_custom_modules(c) == SelectSeq(CustomNameOrder, LAMBDA n : n \in DOMAIN c.custom)

\* modules::handle: the detector of a builtin module; a module that matches
\* has c.detect[name] segments
SegmentNames == <<"symbol", "value", "suffix", "extra">>

modules_handle(name, c) ==
    IF name \in DOMAIN c.detect /\ c.detect[name] > 0
    THEN Some(Module(name, [k \in 1..c.detect[name] |-> Segment(SegmentNames[k], <<name>>)]))
    ELSE None

(***************************************************************************)
(* should_add_implicit_custom_module                                       *)
(***************************************************************************)
\* the same without the look at the `disabled` key
should_add_ignoring_disabled(custom_name, config, config_prompt_order) ==
    ~ \E i \in 1..Len(config_prompt_order) :
          LET x == Bytes(config_prompt_order[i])
          IN  /\ Len(x) = 7 + Len(Bytes(custom_name))
              /\ SubSeq(x, 1, 7) = custom_dot
              /\ SubSeq(x, 8, Len(x)) = Bytes(custom_name)

should_add_implicit_custom_module(custom_name, config, config_prompt_order) ==
    LET is_explicitly_specified ==
            \E i \in 1..Len(config_prompt_order) :
                LET x == Bytes(config_prompt_order[i])
                IN  /\ Len(x) = 7 + Len(Bytes(custom_name))
                    /\ SubSeq(x, 1, 7) = custom_dot
                    /\ SubSeq(x, 8, Len(x)) = Bytes(custom_name)
    IN  IF is_explicitly_specified THEN FALSE
        ELSE ~(config.disabled = "true")

(***************************************************************************)
(* handle_module: the modules a variable resolves to, with the detectors   *)
(* (modules::handle) and the custom modules (custom::module) it called.    *)
(***************************************************************************)
Resolution(modules, handled, customs, panic) ==
    [modules |-> modules, handled |-> handled, customs |-> customs, panic |-> panic]

\* Vec<Option<Module>> flattened
RECURSIVE flatten(_)
flatten(options) ==
    IF options = <<>> THEN <<>> ELSE Head(options) \o flatten(Tail(options))

\* handle_module without the disabled check of a builtin
handle_module_ignoring_disabled(module, c, module_list) ==
    IF module \in ALL_MODULES
    THEN Resolution(modules_handle(module, c), <<module>>, <<>>, FALSE)
    ELSE Resolution(<<>>, <<>>, <<>>, FALSE)

\* handle_module calling custom::module for `custom.<name>` whatever the
\* configuration holds
handle_module_unchecked_name(module, c, module_list) ==
    IF module \in ALL_MODULES \/ module = "custom" THEN Resolution(<<>>, <<>>, <<>>, FALSE)
    ELSE IF starts_with_custom_dot(module)
    THEN LET resolved(name, r) == Resolution(r.module, <<>>, <<name>>, r.panic)
         IN  resolved(after_custom_dot(module),
                      custom_module(after_custom_dot(module), c))
    ELSE Resolution(<<>>, <<>>, <<>>, FALSE)

handle_module(module, c, module_list) ==
    IF module \in ALL_MODULES
    THEN IF ~is_module_disabled_in_config(module, c)
         THEN Resolution(modules_handle(module, c), <<module>>, <<>>, FALSE)
         ELSE Resolution(<<>>, <<>>, <<>>, FALSE)
    ELSE IF module = "custom"
    THEN LET resolved(added, outs) ==
                 Resolution(flatten([i \in 1..Len(added) |-> outs[i].module]),
                            <<>>, added,
                            \E i \in 1..Len(added) : outs[i].panic)
             called(added) ==
                 resolved(added, [i \in 1..Len(added) |-> custom_module(added[i], c)])
         IN  called(SelectSeq(get_custom_modules(c),
                              LAMBDA n : should_add_implicit_custom_module(
                                             n, c.custom[n], module_list)))
    ELSE IF starts_with_custom_dot(module)
    THEN LET resolved(name, r) == Resolution(r.module, <<>>, <<name>>, r.panic)
         IN  IF is_custom_module_disabled_in_config(after_custom_dot(module), c)
                    = Some(FALSE)
             THEN resolved(after_custom_dot(module),
                           custom_module(after_custom_dot(module), c))
             ELSE Resolution(<<>>, <<>>, <<>>, FALSE)
    ELSE Resolution(<<>>, <<>>, <<>>, FALSE)

(***************************************************************************)
(* get_prompt.  A root template is known by the variables it holds, in     *)
(* their order of occurrence; StringFormatter::new fails on a template     *)
(* that does not parse (ctx.format = None).                                *)
(* Where a value is used several times it is bound once by a singleton     *)
(* set, {e(x) : x \in {v}}, so that TLC computes it once.                  *)
(***************************************************************************)
\* the segments of some modules, in order
RECURSIVE segments_of(_)
segments_of(modules) ==
    IF modules = <<>> THEN <<>>
    ELSE Head(modules).segments \o segments_of(Tail(modules))

\* what resolving a variable gave: the segments it is bound to (None for no
\* binding), and the detectors and custom modules called on the way
Binding(segments, handled, customs, panic) ==
    [segments |-> segments, handled |-> handled, customs |-> customs, panic |-> panic]

\* an entry of PROMPT_ORDER under `all`, the line break looked up like a
\* module (and unknown to handle_module)
all_entry_no_line_break(i, c, modules) ==
    IF PROMPT_ORDER[i] = "\n"
    THEN Binding(<<>>, <<>>, <<>>, FALSE)
    ELSE LET bound(r) == Binding(segments_of(r.modules), r.handled, r.customs, r.panic)
         IN  bound(handle_module(PROMPT_ORDER[i], c, modules))

\* one entry of PROMPT_ORDER under `all`
all_entry(i, c, modules) ==
    IF PROMPT_ORDER[i] = "\n"
    THEN Binding(<<Segment("line_break", <<"\n">>)>>, <<>>, <<>>, FALSE)
    ELSE LET bound(r) == Binding(segments_of(r.modules), r.handled, r.customs, r.panic)
         IN  bound(handle_module(PROMPT_ORDER[i], c, modules))

\* the values of one field of per[lo..hi], concatenated in order
RECURSIVE concat_field(_, _, _, _)
concat_field(per, lo, hi, field) ==
    IF lo > hi THEN <<>>
    ELSE per[lo][field] \o concat_field(per, lo + 1, hi, field)

\* the entries lo..hi of PROMPT_ORDER under `all`, walked in order
all_entries(lo, hi, c, modules) ==
    CHOOSE b \in
        {Binding(concat_field(per, lo, hi, "segments"),
                 concat_field(per, lo, hi, "handled"),
                 concat_field(per, lo, hi, "customs"),
                 \E i \in lo..hi : per[i].panic) :
            per \in {[i \in lo..hi |-> all_entry(i, c, modules)]}} : TRUE

\* the closure given to map_variables_to_segments
map_variable(module, c, modules) ==
    IF module = "all"
    THEN [all_entries(1, Len(PROMPT_ORDER), c, modules) EXCEPT !.segments = Some(@)]
    ELSE IF is_module_disabled_in_config(module, c)
    THEN Binding(None, <<>>, <<>>, FALSE)
    ELSE LET bound(r) == Binding(Some(segments_of(r.modules)), r.handled, r.customs,
                                 r.panic)
         IN  bound(handle_module(module, c, modules))

\* StringFormatter::get_variables
get_variables(template) == template

\* StringFormatter::parse: the segments of each variable, in the order the
\* variables occur in the template; a variable without binding gives none
RECURSIVE format_parse(_, _)
format_parse(template, bound) ==
    IF template = <<>> THEN <<>>
    ELSE (IF IsSome(bound[Head(template)].segments)
          THEN Unwrap(bound[Head(template)].segments) ELSE <<>>)
         \o format_parse(Tail(template), bound)

\* the messages: a process-global list, shown until recorded as viewed
DEPRECATED_USE_FORMAT == "DEPRECATED_USE_FORMAT"

messages_add(list, message) == list \cup {message}

messages_get_segments(list, seen) ==
    IF list = {} \/ seen = Some(list) THEN <<>>
    ELSE <<Segment("message", <<CHOOSE m \in list : TRUE>>)>>

update_viewed_hash(list) == Some(list)

\* Module::ansi_strings_for_shell of the root module, empty prefix and
\* suffix: the text of its segments
RECURSIVE ansi_strings(_)
ansi_strings(segments) ==
    IF segments = <<>> THEN <<>>
    ELSE Head(segments).value \o ansi_strings(Tail(segments))

\* the ASCII control code get_prompt prints first in fish
CLEAR_SCREEN == "\\x1b[J"

\* logs of several bindings, in the order of the variables
RECURSIVE logs_of(_, _, _)
logs_of(vs, bound, field) ==
    IF vs = <<>> THEN <<>>
    ELSE bound[Head(vs)][field] \o logs_of(Tail(vs), bound, field)

\* what a get_prompt call returns and does
Rendered(buf, bound_all, handled, customs, panic, list, seen) ==
    [buf |-> buf, bound_all |-> bound_all, handled |-> handled, customs |-> customs,
     panic |-> panic, MESSAGES |-> list, viewed |-> seen]

\* get_prompt from the bindings on: the messages, the root module, the buffer
finish_prompt(c, bound, list, seen) ==
    LET template == Unwrap(c.format)
        buf0 == IF c.shell = "fish" THEN <<CLEAR_SCREEN>> ELSE <<>>
        list2 == IF c.deprecated THEN messages_add(list, DEPRECATED_USE_FORMAT) ELSE list
        segments == messages_get_segments(list2, seen) \o format_parse(template, bound)
    IN  Rendered(buf0 \o ansi_strings(segments),
                 IF "all" \in DOMAIN bound THEN bound["all"].segments ELSE None,
                 logs_of(template, bound, "handled"),
                 logs_of(template, bound, "customs"),
                 \E v \in DOMAIN bound : bound[v].panic,
                 list2, update_viewed_hash(list2))

\* get_prompt that pushes the fallback for every shell alike
get_prompt_plain_fallback(c, list, seen) ==
    IF ~IsSome(c.format)
    THEN Rendered(<<">">>, None, <<>>, <<>>, FALSE, list, seen)
    ELSE LET modules == get_variables(Unwrap(c.format))
         IN  CHOOSE r \in
                 {finish_prompt(c, bound, list, seen) :
                     bound \in {[v \in Range(modules) |-> map_variable(v, c, modules)]}} :
                 TRUE

get_prompt(c, list, seen) ==
    LET buf0 == IF c.shell = "fish" THEN <<CLEAR_SCREEN>> ELSE <<>>
    IN  IF ~IsSome(c.format)
        THEN Rendered(buf0 \o <<">">>, None, <<>>, <<>>, FALSE, list, seen)
        ELSE LET modules == get_variables(Unwrap(c.format))
             IN  CHOOSE r \in
                     {finish_prompt(c, bound, list, seen) :
                         bound \in {[v \in Range(modules) |->
                                         map_variable(v, c, modules)]}} :
                     TRUE

\* compute_modules: the loop over the variables of the template
RECURSIVE compute_modules_from(_, _, _)
compute_modules_from(rest, c, modules) ==
    IF rest = <<>> THEN <<>>
    ELSE handle_module(Head(rest), c, modules).modules
         \o compute_modules_from(Tail(rest), c, modules)

\* compute_modules: the modules `explain` lists
compute_modules(c) ==
    IF ~IsSome(c.format) THEN <<>>
    ELSE compute_modules_from(get_variables(Unwrap(c.format)), c,
                              get_variables(Unwrap(c.format)))

(***************************************************************************)
(* Contexts.  A Context is created once per invocation and only read       *)
(* afterwards.                                                             *)
(***************************************************************************)
Programs == {"zsh", "fish", "sh", "/bin/env", "cmd.exe"}

CustomConfig(disabled, files, extensions, directories, when, shell, command, symbol) ==
    [disabled |-> disabled, files |-> files, extensions |-> extensions,
     directories |-> directories, when |-> when, shell |-> shell,
     command |-> command, symbol |-> symbol]

\* the configuration values of a custom module that the executor reads
CustomConfigs ==
    {CustomConfig("absent", f, e, d, w, sh, Command(st, out), sy) :
        f \in SUBSET {"main.rs"}, e \in SUBSET {"rs"}, d \in SUBSET {"src"},
        w \in {None, Some(Command(0, <<>>)), Some(Command(1, <<>>))},
        sh \in {None, Some("zsh")},
        st \in {0, 1}, out \in Strings,
        sy \in {None, Some("$")}}

\* a directory: the scan cannot begin, or its listing
Dirs == {None} \cup {Some(l) : l \in SUBSET Entries}

\* the programs a call with this shell configuration may try to spawn
Consulted(platform, shell, env_shell) ==
    IF platform = "windows"
    THEN {"cmd.exe"} \cup (IF IsSome(shell) THEN {Unwrap(shell)}
                           ELSE IF IsSome(env_shell) THEN {Unwrap(env_shell)} ELSE {})
    ELSE {"/bin/env"} \cup (IF IsSome(shell) THEN {Unwrap(shell)}
                            ELSE IF IsSome(env_shell) THEN {Unwrap(env_shell)}
                            ELSE {"sh"})

BaseContext ==
    [shell |-> "bash", platform |-> "unix", dir |-> Some({}),
     env_shell |-> None, spawnable |-> Programs, io |-> "ok",
     custom |-> <<>>, detect |-> <<>>, disabled |-> {},
     format |-> None, deprecated |-> FALSE]

\* nothing rendered yet, no message added, nothing recorded as viewed
NoRender ==
    /\ MESSAGES = {}
    /\ viewed = None
    /\ outputs = <<>>
    /\ bindings = <<>>
    /\ chunks = <<>>
    /\ arrival = <<>>

\* a context with one configured custom module "foo"
CustomContext(pf, d, es, io, cfg, missing) ==
    [BaseContext EXCEPT !.platform = pf, !.dir = d, !.env_shell = es,
                        !.spawnable = Programs \ missing, !.io = io,
                        !.custom = [n \in {"foo"} |-> cfg]]

(***************************************************************************)
(* The custom module executor on its own: one call of custom::module for   *)
(* a configured module, in every directory and shell environment.  The     *)
(* programs the call never tries to spawn are left spawnable.              *)
(***************************************************************************)
InitCustom ==
    /\ \E pf \in {"unix", "windows"}, d \in Dirs, es \in {None, Some("fish")},
          io \in {"ok", "write_err", "wait_err"}, cfg \in CustomConfigs :
          \E missing \in SUBSET Consulted(pf, cfg.shell, es) :
              ctx = CustomContext(pf, d, es, io, cfg, missing)
    /\ pc = "call"
    /\ target = "foo"
    /\ requested = <<>>
    /\ result = None
    /\ NoRender

CallCustomModule ==
    /\ pc = "call"
    /\ result' = Some(custom_module(target, ctx))
    /\ pc' = "returned"
    /\ UNCHANGED <<ctx, target, requested, global_vars, render_vars>>

NextCustom == CallCustomModule

SpecCustom == InitCustom /\ [][NextCustom]_vars

(***************************************************************************)
(* The resolver on its own: one call of handle_module for a variable of    *)
(* the template, or for an entry of PROMPT_ORDER when the template holds   *)
(* `all`, against the template's variables.                                *)
(***************************************************************************)
\* sequences of distinct elements of S, of length 1..n
RECURSIVE Distinct(_, _)
Distinct(S, n) ==
    IF n = 0 THEN {<<>>}
    ELSE LET shorter == Distinct(S, n - 1)
         IN  shorter \cup {Append(q, x) : q \in {r \in shorter : Len(r) = n - 1},
                                           x \in S}

Templates(S) == {q \in Distinct(S, MaxVars) : q # <<>> /\ Cardinality(Range(q)) = Len(q)}

ResolveVars == {"all", "username", "custom", "custom.foo", "custom.bar",
                "custom.foobar", "customs"}

\* custom modules as the resolver sees them: the `disabled` key, and a
\* gating command that makes the module match or not
ResolveConfigs ==
    {CustomConfig(dis, {}, {}, {}, Some(Command(st, <<>>)), None,
                  Command(0, <<"x">>), None) :
        dis \in {"absent", "true", "false", "other"}, st \in {0, 1}}

CustomTables(names) ==
    UNION {[S -> ResolveConfigs] : S \in SUBSET names}

InitResolve ==
    /\ \E table \in CustomTables({"foo", "bar"}),
          n \in 0..MaxSegs, dis \in SUBSET {"username"} :
          ctx = [BaseContext EXCEPT !.custom = table,
                                    !.detect = [m \in {"username"} |-> n],
                                    !.disabled = dis]
    /\ requested \in Templates(ResolveVars)
    /\ target \in Range(requested) \cup
                  (IF "all" \in Range(requested) THEN {"username", "hostname", "custom"}
                   ELSE {})
    /\ pc = "call"
    /\ result = None
    /\ NoRender

CallHandleModule ==
    /\ pc = "call"
    /\ result' = Some(handle_module(target, ctx, requested))
    /\ pc' = "returned"
    /\ UNCHANGED <<ctx, target, requested, global_vars, render_vars>>

NextResolve == CallHandleModule

SpecResolve == InitResolve /\ [][NextResolve]_vars

(***************************************************************************)
(* The renderer: get_prompt called up to MaxRenders times in one process,  *)
(* on one Context.                                                         *)
(***************************************************************************)
Live == {"username", "character"}

RenderVars == {"all", "username", "character", "custom"}

Shells == {"bash", "fish", "zsh"}

InitRender ==
    /\ \E sh \in Shells, dep \in BOOLEAN, table \in CustomTables({"foo"}),
          det \in [Live -> 0..MaxSegs], dis \in SUBSET Live,
          fmt \in {None} \cup {Some(t) : t \in Templates(RenderVars)} :
          ctx = [BaseContext EXCEPT !.shell = sh, !.deprecated = dep,
                                    !.custom = table, !.detect = det,
                                    !.disabled = dis, !.format = fmt]
    /\ pc = "idle"
    /\ target = ""
    /\ requested = <<>>
    /\ result = None
    /\ MESSAGES = {}
    /\ viewed \in {None, Some({DEPRECATED_USE_FORMAT})}
    /\ outputs = <<>>
    /\ bindings = <<>>
    /\ chunks = <<>>
    /\ arrival = <<>>

GetPrompt ==
    /\ pc = "idle"
    /\ Len(outputs) < MaxRenders
    /\ \E r \in {get_prompt(ctx, MESSAGES, viewed)} :
           /\ outputs' = Append(outputs, r)
           /\ MESSAGES' = r.MESSAGES
           /\ viewed' = r.viewed
           /\ pc' = IF r.panic THEN "panicked" ELSE "idle"
    /\ UNCHANGED <<ctx, call_vars, bindings, chunks, arrival>>

Next == GetPrompt

Spec == InitRender /\ [][Next]_vars

(***************************************************************************)
(* The renderer and `explain` on the same Context: get_prompt renders and  *)
(* compute_modules lists, in any order.                                    *)
(***************************************************************************)
ComputeModules ==
    /\ pc = "idle"
    /\ result = None
    /\ result' = Some(compute_modules(ctx))
    /\ UNCHANGED <<ctx, pc, target, requested, global_vars, render_vars>>

NextExplain ==
    \/ GetPrompt
    \/ ComputeModules

SpecExplain == InitRender /\ [][NextExplain]_vars

(***************************************************************************)
(* The renderer with its parallel resolutions.  The variables of the       *)
(* template are resolved in any order; under `all`, PROMPT_ORDER is walked *)
(* by par_iter: the list is split in halves, again and again, into pieces  *)
(* that workers walk and finish in any order, and collect() puts the       *)
(* pieces together.                                                        *)
(***************************************************************************)
Chunk(lo, hi) == [lo |-> lo, hi |-> hi, done |-> FALSE, segments |-> <<>>]

\* the pieces' segments, put together in the order workers finished
RECURSIVE collect_in_arrival_order(_, _)
collect_in_arrival_order(pieces, finished) ==
    IF finished = <<>> THEN <<>>
    ELSE LET k == CHOOSE i \in 1..Len(pieces) : pieces[i].lo = Head(finished)
         IN  pieces[k].segments \o collect_in_arrival_order(pieces, Tail(finished))

\* collect::<Vec<_>>(): the pieces' segments in the order of the list
RECURSIVE collect(_, _)
collect(pieces, finished) ==
    IF pieces = <<>> THEN <<>>
    ELSE Head(pieces).segments \o collect(Tail(pieces), finished)

ParLive == {"username", "python", "character"}

ParVars == {"all", "username", "custom"}

InitPar ==
    /\ \E det \in [ParLive -> 0..MaxSegs],
          table \in {<<>>, [n \in {"foo"} |->
                              CustomConfig("absent", {}, {}, {}, Some(Command(0, <<>>)),
                                           None, Command(0, <<"x">>), None)]},
          fmt \in {None} \cup {Some(t) : t \in Templates(ParVars)} :
          ctx = [BaseContext EXCEPT !.custom = table, !.detect = det, !.format = fmt]
    /\ pc = "call"
    /\ target = ""
    /\ requested = <<>>
    /\ result = None
    /\ NoRender

\* get_prompt up to map_variables_to_segments
StartPrompt ==
    /\ pc = "call"
    /\ \/ /\ ~IsSome(ctx.format)
          /\ outputs' = <<get_prompt(ctx, MESSAGES, viewed)>>
          /\ pc' = "done"
          /\ UNCHANGED <<requested, chunks>>
       \/ /\ IsSome(ctx.format)
          /\ requested' = get_variables(Unwrap(ctx.format))
          /\ chunks' = IF "all" \in Range(requested')
                       THEN <<Chunk(1, Len(PROMPT_ORDER))>> ELSE <<>>
          /\ pc' = "mapping"
          /\ UNCHANGED outputs
    /\ UNCHANGED <<ctx, target, result, global_vars, bindings, arrival>>

\* the closure runs for a variable other than `all`
ResolveVariable(v) ==
    /\ pc = "mapping"
    /\ v # "all"
    /\ v \notin DOMAIN bindings
    /\ bindings' = bindings @@ (v :> map_variable(v, ctx, requested))
    /\ UNCHANGED <<ctx, pc, call_vars, global_vars, outputs, chunks, arrival>>

\* a piece no worker has walked is split in halves
SplitChunk(k) ==
    /\ pc = "mapping"
    /\ ~chunks[k].done
    /\ chunks[k].lo < chunks[k].hi
    /\ Len(chunks) < MaxChunks
    /\ LET mid == chunks[k].lo + (chunks[k].hi - chunks[k].lo + 1) \div 2
       IN  chunks' = SubSeq(chunks, 1, k - 1)
                     \o <<Chunk(chunks[k].lo, mid - 1), Chunk(mid, chunks[k].hi)>>
                     \o SubSeq(chunks, k + 1, Len(chunks))
    /\ UNCHANGED <<ctx, pc, call_vars, global_vars, outputs, bindings, arrival>>

\* a worker walks a piece: flat_map over its entries, in order
RunChunk(k) ==
    /\ pc = "mapping"
    /\ ~chunks[k].done
    /\ chunks' = [chunks EXCEPT
                     ![k].done = TRUE,
                     ![k].segments = all_entries(chunks[k].lo, chunks[k].hi,
                                                 ctx, requested).segments]
    /\ arrival' = Append(arrival, chunks[k].lo)
    /\ UNCHANGED <<ctx, pc, call_vars, global_vars, outputs, bindings>>

\* every piece is walked: `all` is bound to what collect() returns
CollectAll ==
    /\ pc = "mapping"
    /\ chunks # <<>>
    /\ "all" \notin DOMAIN bindings
    /\ \A k \in 1..Len(chunks) : chunks[k].done
    /\ bindings' = bindings @@
           ("all" :> Binding(Some(collect(chunks, arrival)), <<>>, <<>>, FALSE))
    /\ UNCHANGED <<ctx, pc, call_vars, global_vars, outputs, chunks, arrival>>

\* every variable is bound: the rest of get_prompt
FinishPrompt ==
    /\ pc = "mapping"
    /\ DOMAIN bindings = Range(requested)
    /\ \E r \in {finish_prompt(ctx, bindings, MESSAGES, viewed)} :
           /\ outputs' = <<r>>
           /\ MESSAGES' = r.MESSAGES
           /\ viewed' = r.viewed
    /\ pc' = "done"
    /\ UNCHANGED <<ctx, call_vars, bindings, chunks, arrival>>

NextPar ==
    \/ StartPrompt
    \/ \E v \in Range(requested) : ResolveVariable(v)
    \/ \E k \in 1..Len(chunks) : SplitChunk(k)
    \/ \E k \in 1..Len(chunks) : RunChunk(k)
    \/ CollectAll
    \/ FinishPrompt

SpecPar == InitPar /\ [][NextPar]_vars

(***************************************************************************)
(* modules::hg_branch.  A name is the sequence of its graphemes; the       *)
(* files under .hg are read whole and trimmed.  No name is as long as      *)
(* usize::MAX.                                                             *)
(***************************************************************************)
usize_MAX(bits) == 2 ^ bits - 1

\* `as usize` of a positive integer
as_usize(n, bits) == n % (2 ^ bits)

\* get_graphemes: the first `length` graphemes of the text
get_graphemes(text, length) ==
    SubSeq(text, 1, IF length < Len(text) THEN length ELSE Len(text))

graphemes_len(text) == Len(text)

\* get_hg_branch_name: the content of .hg/branch, trimmed, else "default"
get_hg_branch_name(c) ==
    IF IsSome(c.branch) THEN trim(Unwrap(c.branch))
    ELSE <<"d", "e", "f", "a", "u", "l", "t">>

\* get_hg_current_bookmark: the content of .hg/bookmarks.current, trimmed
get_hg_current_bookmark(c) ==
    IF IsSome(c.bookmark) THEN Some(trim(Unwrap(c.bookmark))) ELSE None

\* hg_branch::module: None outside an hg repository and on a format that
\* does not parse, else the module with the branch segment
hg_branch_module(c) ==
    IF ~IsSome(try_begin_scan(c)) THEN None
    ELSE IF ~is_match(Unwrap(try_begin_scan(c)), {}, {}, {".hg"}) THEN None
    ELSE LET truncated_and_symbol(branch_name, len) ==
                 IF len < graphemes_len(branch_name)
                 THEN get_graphemes(branch_name, len)
                      \o get_graphemes(c.truncation_symbol, 1)
                 ELSE get_graphemes(branch_name, len)
             named(bookmark) ==
                 truncated_and_symbol(
                     IF IsSome(bookmark) THEN Unwrap(bookmark)
                     ELSE get_hg_branch_name(c),
                     IF c.truncation_length <= 0 THEN usize_MAX(c.usize_bits)
                     ELSE as_usize(c.truncation_length, c.usize_bits))
         IN  IF ~IsSome(c.format) THEN None
             ELSE Some(Module("hg_branch",
                              <<Segment("branch", named(get_hg_current_bookmark(c)))>>))

Graphemes == {"a", "b"}

\* the names a file under .hg may hold
NamesOfLength(n) == [1..n -> Graphemes]

\* the content of a file under .hg: a name, with or without the line end
Contents ==
    UNION {{name, Append(name, " ")} :
              name \in UNION {NamesOfLength(n) : n \in 0..MaxName}}

HgDirs == {None, Some({}), Some({FolderEntry(".hg")})}

HgContext(d, bits, length, symbol, bookmark, branch, fmt) ==
    [dir |-> d, usize_bits |-> bits, truncation_length |-> length,
     truncation_symbol |-> symbol, bookmark |-> bookmark, branch |-> branch,
     format |-> fmt]

InitHg ==
    /\ \E d \in HgDirs, bits \in {UsizeBitsNarrow, UsizeBitsWide},
          length \in -(2 ^ (IntBits - 1)) .. 2 ^ (IntBits - 1) - 1,
          symbol \in {<<>>, <<".">>, <<".", ".">>},
          bookmark \in {None} \cup {Some(t) : t \in Contents},
          branch \in {None, Some(<<"b", " ">>)},
          fmt \in {None, Some(<<"branch">>)} :
          ctx = HgContext(d, bits, length, symbol, bookmark, branch, fmt)
    /\ pc = "call"
    /\ target = "hg_branch"
    /\ requested = <<>>
    /\ result = None
    /\ NoRender

CallHgBranch ==
    /\ pc = "call"
    /\ result' = Some(hg_branch_module(ctx))
    /\ pc' = "returned"
    /\ UNCHANGED <<ctx, target, requested, global_vars, render_vars>>

NextHg == CallHgBranch

SpecHg == InitHg /\ [][NextHg]_vars

(***************************************************************************)
(* Properties of the custom module executor (checked under SpecCustom).    *)
(***************************************************************************)
Returned == pc = "returned"
Ret == Unwrap(result)
Cfg == ctx.custom[target]

ExecsOf(kind) == {i \in 1..Len(Ret.execs) : Ret.execs[i].kind = kind}
WhenExecuted == ExecsOf("when") # {}
CommandExecuted == ExecsOf("command") # {}

\* the structural scan found a file, extension or folder criterion satisfied
StructuralMatch ==
    /\ IsSome(ctx.dir)
    /\ \/ \E e \in Unwrap(ctx.dir) : e.kind = "file" /\ e.name \in Cfg.files
       \/ \E e \in Unwrap(ctx.dir) : e.kind = "file" /\ e.ext \in Cfg.extensions
       \/ \E e \in Unwrap(ctx.dir) : e.kind = "folder" /\ e.name \in Cfg.directories

\* the child of an execution was spawned and its output collected
Collected(e) ==
    LET last == e.spawns[Len(e.spawns)]
    IN  /\ last.prog \in ctx.spawnable
        /\ ctx.io # "wait_err"
        /\ (ctx.io = "write_err" => last.prog = "cmd.exe")

\* C5 (as claimed): with a `when` command configured, the gating command is
\* executed exactly when the structural scan yields no match, a directory
\* whose listing is unavailable counting as one without entries; and the
\* module is then matched iff the gating command exits with status zero.
C5_GateRunsExactlyWhenNoStructuralMatch ==
    (Returned /\ IsSome(Cfg.when)) =>
        /\ WhenExecuted <=> ~StructuralMatch
        /\ WhenExecuted =>
              (CommandExecuted <=>
                  \E i \in ExecsOf("when") :
                      Collected(Ret.execs[i]) /\ Unwrap(Cfg.when).status = 0)

\* C6: custom::module returns a Module only if the module matched and its
\* output command was started, exited with status zero and printed output
\* that is non-empty after trimming; a command that cannot be run, exits
\* non-zero or prints only whitespace gives no Module at all, and the call
\* propagates no error.
C6_ModuleOnlyFromSuccessfulOutput ==
    Returned =>
        /\ ~Ret.panic
        /\ IsSome(Ret.module) =>
              /\ StructuralMatch \/ WhenExecuted
              /\ \E i \in ExecsOf("command") : Collected(Ret.execs[i])
              /\ Cfg.command.status = 0
              /\ trim(Cfg.command.stdout) # <<>>
              /\ Unwrap(Ret.module).segments[Len(Unwrap(Ret.module).segments)]
                     = Segment("output", trim(Cfg.command.stdout))
        /\ (\/ Cfg.command.status # 0
            \/ Cfg.command.stdout \in Seq(Whitespace)
            \/ \A i \in ExecsOf("command") : ~Collected(Ret.execs[i]))
              => Ret.module = None

\* C6 witness: a matched module whose command ran, exited zero and printed
\* only whitespace, and a symbol is configured: nothing is returned
C6_Witness ==
    /\ Returned
    /\ \E i \in ExecsOf("command") : Collected(Ret.execs[i])
    /\ Cfg.command.status = 0
    /\ Cfg.command.stdout = <<" ">>
    /\ IsSome(Cfg.symbol)
    /\ Ret.module = None

\* no criterion of the structural scan and no gating command
NoCriteria ==
    /\ Cfg.files = {}
    /\ Cfg.extensions = {}
    /\ Cfg.directories = {}
    /\ Cfg.when = None

\* C11: a custom module whose files, extensions and directories are all
\* empty and that has no `when` command never matches: whatever the
\* directory holds, custom::module returns nothing and neither a gating nor
\* the output command is executed.
C11_NoCriteriaNeverMatches ==
    (Returned /\ NoCriteria) =>
        /\ Ret.module = None
        /\ ~Ret.panic
        /\ Ret.execs = <<>>

\* C11 witness: the call returned for a module without criteria, in a
\* directory with files and folders, whose output command would succeed
\* with visible output
C11_Witness ==
    /\ Returned
    /\ NoCriteria
    /\ ctx.dir = Some(Entries)
    /\ ctx.spawnable = Programs
    /\ ctx.io = "ok"
    /\ Cfg.command = Command(0, <<"x">>)

\* the invocations of shell_command
PortableFallback ==
    IF ctx.platform = "windows" THEN Invocation("cmd.exe", <<"/C", "cmd">>)
    ELSE Invocation("/bin/env", <<"sh">>)

PlatformDefault == IF ctx.platform = "windows" THEN "cmd.exe" ELSE "sh"

Overridden == IsSome(Cfg.shell) \/ IsSome(ctx.env_shell)

Override == IF IsSome(Cfg.shell) THEN Unwrap(Cfg.shell) ELSE Unwrap(ctx.env_shell)

\* whatever failed, the caller sees "no match" or "no output", not an error
FailureIsSilent(i) ==
    LET e == Ret.execs[i]
    IN  ~Collected(e) =>
            /\ Ret.module = None
            /\ ~Ret.panic
            /\ e.kind = "when" => ~CommandExecuted

\* C7 (as claimed): for both commands, when the primary shell (the configured
\* shell, else the shell-override variable, else the platform default) cannot
\* be spawned, exactly one further spawn attempt is made, with the portable
\* fallback invocation; final failure is "no match" or "no output".
C7_OneRetryAfterPrimaryFails ==
    Returned =>
        \A i \in 1..Len(Ret.execs) :
            LET e == Ret.execs[i]
                primary == IF Overridden THEN Override ELSE PlatformDefault
            IN  /\ e.spawns[1].prog = primary
                /\ primary \notin ctx.spawnable => e.spawns = <<e.spawns[1], PortableFallback>>
                /\ FailureIsSilent(i)

\* C7 (amended): a shell named by the configuration or by the shell-override
\* variable, or the default `sh` where the platform is not windows, is tried
\* first and, when it cannot be spawned, followed by exactly one attempt with
\* the portable fallback; on windows with no shell named the only attempt is
\* the fallback `cmd.exe /C`, which is not retried.  Final failure is "no
\* match" or "no output", never an error.
C7_OneRetryWhereThereIsAPrimary ==
    Returned =>
        \A i \in 1..Len(Ret.execs) :
            LET e == Ret.execs[i]
                has_primary == Overridden \/ ctx.platform # "windows"
                primary == IF Overridden THEN Override ELSE "sh"
            IN  /\ has_primary =>
                      /\ e.spawns[1] = Invocation(primary, <<>>)
                      /\ primary \in ctx.spawnable => Len(e.spawns) = 1
                      /\ primary \notin ctx.spawnable
                            => e.spawns = <<e.spawns[1], PortableFallback>>
                /\ ~has_primary => e.spawns = <<PortableFallback>>
                /\ FailureIsSilent(i)

\* C7 witness: the gating command's primary shell and the fallback both fail
\* to spawn, and the call returns nothing
C7_Witness ==
    /\ Returned
    /\ \E i \in ExecsOf("when") :
          /\ Len(Ret.execs[i].spawns) = 2
          /\ \A k \in 1..2 : Ret.execs[i].spawns[k].prog \notin ctx.spawnable
    /\ Ret.module = None

(***************************************************************************)
(* Properties of the resolver (checked under SpecResolve).                 *)
(***************************************************************************)
\* the variable that names a custom module explicitly
Dotted(name) ==
    CASE name = "foo" -> "custom.foo"
      [] name = "bar" -> "custom.bar"
      [] name = "foobar" -> "custom.foobar"

Configured == DOMAIN ctx.custom

Enabled(name) == ctx.custom[name].disabled # "true"

Occurrences(q, x) == Cardinality({i \in 1..Len(q) : q[i] = x})

\* C1: resolving `custom` against the requested variables, a configured
\* custom module N is attempted (custom::module is called for it) iff no
\* requested variable equals `custom.N` and N is not disabled; with
\* `custom.foo` and `custom` requested and foo, bar configured, foo is
\* resolved once, by the explicit reference, and bar once, by the wildcard.
C1_WildcardSkipsExplicitAndDisabled ==
    Returned =>
        /\ target = "custom" =>
              /\ \A n \in Configured :
                    Occurrences(Ret.customs, n) =
                        (IF Dotted(n) \notin Range(requested) /\ Enabled(n) THEN 1 ELSE 0)
              /\ Range(Ret.customs) \subseteq Configured
        /\ ({"custom.foo", "custom"} \subseteq Range(requested)
              /\ {"foo", "bar"} \subseteq Configured
              /\ Enabled("foo") /\ Enabled("bar")
              /\ "custom.bar" \notin Range(requested)) =>
              /\ target = "custom.foo" => Ret.customs = <<"foo">>
              /\ target = "custom" => Ret.customs = <<"bar">>

\* C1 witness: `custom.foo` and `custom` requested, foo and bar configured
\* and enabled, and the wildcard has called custom::module for bar alone
C1_Witness ==
    /\ Returned
    /\ target = "custom"
    /\ "custom.foo" \in Range(requested)
    /\ {"foo", "bar"} \subseteq Configured
    /\ Enabled("foo") /\ Enabled("bar")
    /\ Ret.customs = <<"bar">>

\* what a variable is to the resolver
IsUnknown(var) ==
    /\ var \notin ALL_MODULES
    /\ var # "custom"
    /\ ~ \E n \in Configured : var = Dotted(n)

\* C8: a requested variable that is neither a builtin module identifier, nor
\* `custom`, nor `custom.<name>` for a configured custom module resolves to
\* no module: no detector and no custom command is invoked, and the call
\* does not fail.
C8_UnknownVariableResolvesToNothing ==
    (Returned /\ IsUnknown(target)) =>
        /\ Ret.modules = <<>>
        /\ Ret.handled = <<>>
        /\ Ret.customs = <<>>
        /\ ~Ret.panic

\* C8 witness: `custom.bar` has been resolved with no configuration for bar
C8_Witness ==
    /\ Returned
    /\ target = "custom.bar"
    /\ "bar" \notin Configured
    /\ "foo" \in Configured
    /\ Ret.modules = <<>>

\* C13: on every path through handle_module (the wildcard `custom`, a named
\* `custom.<name>`, and `custom` reached through `all`), custom::module is
\* called only for a name with a custom module configuration, so that the
\* `expect` at its start does not panic.
C13_CustomModuleOnlyForConfigured ==
    Returned =>
        /\ \A i \in 1..Len(Ret.customs) : Ret.customs[i] \in Configured
        /\ ~Ret.panic

\* C13 witness: `custom` has been resolved for a template that holds `all`
\* and `custom.bar`, with foo configured and bar not: custom::module was
\* called for foo
C13_Witness ==
    /\ Returned
    /\ target = "custom"
    /\ {"all", "custom.bar"} \subseteq Range(requested)
    /\ Configured = {"foo"}
    /\ Ret.customs = <<"foo">>

(***************************************************************************)
(* Properties of the renderer (checked under Spec).                        *)
(***************************************************************************)
Renders == 1..Len(outputs)

Parsed == IsSome(ctx.format)

InTemplate(var) == Parsed /\ var \in Range(Unwrap(ctx.format))

\* C3: a builtin module that the configuration disables resolves to no
\* segments, referenced directly or reached through `all`, whether or not it
\* would match, and modules::handle is not invoked for it.
C3_DisabledBuiltinRendersNothing ==
    \A k \in Renders : \A d \in ctx.disabled :
        /\ d \notin Range(outputs[k].handled)
        /\ d \notin Range(outputs[k].buf)

\* C3 witness: a disabled builtin whose detector would match, referenced
\* directly and through `all`, has been rendered
C3_Witness ==
    /\ Renders # {}
    /\ \E d \in ctx.disabled :
          /\ ctx.detect[d] > 0
          /\ InTemplate(d)
          /\ InTemplate("all")

LineBreak == Segment("line_break", <<"\n">>)

\* no builtin detector and no custom module gives a module under `all`
NothingMatches ==
    /\ \A m \in DOMAIN ctx.detect : ctx.detect[m] = 0 \/ m \in ctx.disabled
    /\ \A n \in Configured :
          \/ ~Enabled(n)
          \/ InTemplate(Dotted(n))
          \/ ~IsSome(ctx.custom[n].when)
          \/ Unwrap(ctx.custom[n].when).status # 0

\* C4: under `all` the line-break entry of PROMPT_ORDER yields exactly one
\* segment, with text "\n", without module lookup, and every other entry
\* only the segments of the modules it resolves to; when no module matches
\* or all are disabled, `all` is bound to the newline segment alone.
C4_AllKeepsTheLineBreak ==
    \A k \in Renders :
        InTemplate("all") =>
            LET segs == Unwrap(outputs[k].bound_all)
            IN  /\ Cardinality({i \in 1..Len(segs) : segs[i].name = "line_break"}) = 1
                /\ \A i \in 1..Len(segs) :
                      \/ segs[i] = LineBreak
                      \/ \E m \in Range(outputs[k].handled) \cap DOMAIN ctx.detect :
                            ctx.detect[m] > 0 /\ segs[i].value = <<m>>
                      \/ outputs[k].customs # <<>> /\ segs[i].name \in {"symbol", "output"}
                /\ "\n" \notin Range(outputs[k].handled)
                /\ NothingMatches => segs = <<LineBreak>>

\* C4 witness: `all` has been rendered where the only module that would
\* match is disabled
C4_Witness ==
    /\ Renders # {}
    /\ InTemplate("all")
    /\ NothingMatches
    /\ \E m \in ctx.disabled : ctx.detect[m] > 0
    /\ outputs[1].bound_all = Some(<<LineBreak>>)

NothingResolved(k) ==
    /\ outputs[k].handled = <<>>
    /\ outputs[k].customs = <<>>
    /\ ~outputs[k].panic

\* C9 (as claimed): when the root template fails to parse, get_prompt
\* returns, for every shell kind, exactly the fallback `>`, and resolves no
\* module.
C9_ParseFailureGivesFallbackOnly ==
    \A k \in Renders :
        ~Parsed => outputs[k].buf = <<">">> /\ NothingResolved(k)

\* C9 (amended): when the root template fails to parse, get_prompt does not
\* abort, resolves no module and returns the fallback `>`, preceded in fish,
\* and only there, by the clear-screen control code.
C9_ParseFailureGivesFallbackAfterClear ==
    \A k \in Renders :
        ~Parsed =>
            /\ outputs[k].buf =
                  (IF ctx.shell = "fish" THEN <<CLEAR_SCREEN, ">">> ELSE <<">">>)
            /\ NothingResolved(k)

\* C9 witness: a template that does not parse has been rendered in fish
C9_Witness ==
    /\ Renders # {}
    /\ ~Parsed
    /\ ctx.shell = "fish"

\* C10: two get_prompt calls on the same template and unchanged Context
\* return identical output: nothing the first render writes (the message
\* list, the viewed-messages record) changes the content of the second.
C10_SecondRenderIsIdentical ==
    Len(outputs) >= 2 => outputs[2].buf = outputs[1].buf

\* the text get_prompt rendered from modules: the buffer without the
\* clear-screen code, the messages and the line break
ModuleText(k) ==
    SelectSeq(outputs[k].buf,
              LAMBDA t : t \notin {CLEAR_SCREEN, DEPRECATED_USE_FORMAT, "\n"})

\* C12: for every root template that parses, the modules compute_modules resolves are,
\* in sequence, the modules whose segments get_prompt renders, the
\* expansion of `all` into PROMPT_ORDER included.
C12_ExplainListsWhatIsRendered ==
    \A k \in Renders :
        (IsSome(result) /\ Parsed) =>
            ansi_strings(segments_of(Unwrap(result))) = ModuleText(k)

\* C12 without `all`: for a template that does not hold the variable `all`
\* the two sequences are the same
C12_SameWithoutAll ==
    \A k \in Renders :
        (IsSome(result) /\ Parsed /\ ~InTemplate("all")) =>
            ansi_strings(segments_of(Unwrap(result))) = ModuleText(k)

(***************************************************************************)
(* Properties of the parallel resolutions (checked under SpecPar).         *)
(***************************************************************************)
IndexInOrder(name) == CHOOSE i \in 1..Len(PROMPT_ORDER) : PROMPT_ORDER[i] = name

\* the entry of PROMPT_ORDER a segment bound to `all` comes from
EntryOf(segment) ==
    IF segment.name = "line_break" THEN IndexInOrder("\n")
    ELSE IF segment.value[1] \in ALL_MODULES THEN IndexInOrder(segment.value[1])
    ELSE IndexInOrder("custom")

\* C2: whatever the order in which the parallel resolutions finish, the
\* segments bound to `all` appear in the order of PROMPT_ORDER, the segments
\* of the template's variables in the order of the template, and the output
\* is the one of a render that resolves everything in order.
C2_OutputIndependentOfCompletionOrder ==
    (pc = "done" /\ Parsed) =>
        /\ outputs[1].buf = get_prompt(ctx, {}, None).buf
        /\ InTemplate("all") =>
              LET segs == Unwrap(outputs[1].bound_all)
              IN  \A i, j \in 1..Len(segs) :
                      i < j => EntryOf(segs[i]) <= EntryOf(segs[j])

\* C2 witness: a render is done in which the piece with the last entries of
\* PROMPT_ORDER finished before the piece with the first, both with segments
C2_Witness ==
    /\ pc = "done"
    /\ Len(arrival) >= 2
    /\ arrival[1] > arrival[Len(arrival)]
    /\ ctx.detect["username"] > 0
    /\ ctx.detect["character"] > 0
    /\ Len(Unwrap(ctx.format)) = 2

(***************************************************************************)
(* Properties of hg_branch (checked under SpecHg).                         *)
(***************************************************************************)
\* the bookmark or branch name
HgName ==
    IF IsSome(get_hg_current_bookmark(ctx)) THEN Unwrap(get_hg_current_bookmark(ctx))
    ELSE get_hg_branch_name(ctx)

\* the name the module that was returned displays
HgShown == Unwrap(Ret).segments[1].value

\* what is to be displayed for a truncation_length n
HgExpected(n) ==
    IF n <= 0 THEN HgName
    ELSE IF Len(HgName) > n
    THEN SubSeq(HgName, 1, n) \o SubSeq(ctx.truncation_symbol, 1,
                                         IF ctx.truncation_symbol = <<>> THEN 0 ELSE 1)
    ELSE HgName

\* C14: the displayed name is the first truncation_length graphemes of the
\* bookmark or branch name, followed by the first grapheme of the truncation
\* symbol iff the name has more than truncation_length graphemes; for every
\* truncation_length <= 0 the name is shown in full without the symbol.
C14_TruncatedAtConfiguredLength ==
    (Returned /\ IsSome(Ret)) => HgShown = HgExpected(ctx.truncation_length)

\* C14 where usize holds the configured length: the same, for every
\* truncation_length below 2 ^ (bits of usize)
C14_TruncatedWhereUsizeHoldsLength ==
    (Returned /\ IsSome(Ret) /\ ctx.truncation_length < 2 ^ ctx.usize_bits) =>
        HgShown = HgExpected(ctx.truncation_length)

\* C14 for lengths that are not positive: the name in full, on every target
C14_FullNameForNonPositiveLength ==
    (Returned /\ IsSome(Ret) /\ ctx.truncation_length <= 0) => HgShown = HgName

====
